---- MODULE Spec2Model ----
(***************************************************************************)
(* Model of the two scripts of the repository:                             *)
(*   - job_site/job_site/spiders/get_jobs.py : GetJobsSpider, which turns  *)
(*     n_listings into the LOAD_PAGES / CLICK_TIMEOUT values of a script   *)
(*     handed to the browser driver, then parses the response;             *)
(*   - scrapers/upsplash_images.py : scrape_up_splash, which picks one URL *)
(*     per <img srcset=...> node and downloads it.                         *)
(* Python strings are modelled as sequences of one-character strings, so   *)
(* that split / "in" / replace are computed character by character.        *)
(***************************************************************************)
EXTENDS Integers, Sequences, FiniteSets, TLC

VARIABLES
    \* ---- GetJobsSpider ----
    jpc,            \* "new" | "constructed" | "raised" | "browser" | "parsed"
    n_listings,     \* constructor argument: [kind |-> "int"|"str", val, text]
    required_jobs,  \* self.required_jobs
    js_code,        \* self.js_code: the two substituted values of the script
    page_methods,   \* meta["playwright_page_methods"] of the issued request
    pm_idx,         \* next page method the driver runs
    clicks,         \* "load more" interactions done by the evaluated script
    events,         \* what the browser did, in order
    \* ---- get_high_res_img_url on its own ----
    spc,            \* "idle" | "call" | "returned" | "raised"
    img_node,       \* the node passed in: [attr |-> "str"|"none"|"missing", srcset]
    url_res,        \* the local url_res of the call
    sel_result,     \* what the call returned / raised
    \* ---- scrape_up_splash ----
    pc,             \* "idle" | "start" | "fetch" | "save" | "done" | "raised"
    terms,          \* argument: [isNone |-> BOOLEAN, list |-> Seq(term)]
    term_idx,       \* position of the for loop over terms
    img_nodes,      \* get_img_tags_for(term)
    all_img_urls,   \* [get_high_res_img_url(i) for i in img_nodes]
    img_urls,       \* [u for u in all_img_urls if u]
    url_idx,        \* position of the for loop of save_images
    fetchLog,       \* get(url) calls, in order
    writeLog        \* files written, in order

jobVars == <<jpc, n_listings, required_jobs, js_code, page_methods, pm_idx, clicks, events>>
selVars == <<spc, img_node, url_res, sel_result>>
scrVars == <<pc, terms, term_idx, img_nodes, all_img_urls, img_urls, url_idx, fetchLog, writeLog>>
vars == <<jobVars, selVars, scrVars>>

(***************************************************************************)
(* Bounds of the model.                                                    *)
(***************************************************************************)
MaxTarget == 301    \* largest n_listings tried
MinTargetAbs == 150 \* n_listings ranges from -MinTargetAbs
MaxPieces == 4      \* a srcset is at most this many pieces long
MaxTerms == 2       \* search terms per run
MaxImgs == 2        \* img nodes per result page

(***************************************************************************)
(* Python string helpers.                                                  *)
(***************************************************************************)
DigitChar == <<"0", "1", "2", "3", "4", "5", "6", "7", "8", "9">>

RECURSIVE Digits(_)
Digits(n) ==
    IF n < 10 THEN <<DigitChar[n + 1]>>
    ELSE Digits(n \div 10) \o <<DigitChar[(n % 10) + 1]>>

\* str(n) of a Python int
Str(n) == IF n < 0 THEN <<"-">> \o Digits(-n) ELSE Digits(n)

DigitVal(c) == CHOOSE d \in 0..9 : DigitChar[d + 1] = c

IsDigit(c) == \E d \in 0..9 : DigitChar[d + 1] = c

RECURSIVE DigitsVal(_)
DigitsVal(t) ==
    IF t = <<>> THEN 0
    ELSE 10 * DigitsVal(SubSeq(t, 1, Len(t) - 1)) + DigitVal(t[Len(t)])

\* the text is an optionally signed run of decimal digits
IsIntLiteral(t) ==
    LET body == IF t # <<>> /\ Head(t) \in {"-", "+"} THEN Tail(t) ELSE t
    IN  body # <<>> /\ \A i \in 1..Len(body) : IsDigit(body[i])

\* value of an optionally signed run of decimal digits
IntValue(t) ==
    IF Head(t) = "-" THEN 0 - DigitsVal(Tail(t))
    ELSE IF Head(t) = "+" THEN DigitsVal(Tail(t))
    ELSE DigitsVal(t)

\* p in s
Contains(s, p) == \E i \in 1..(Len(s) - Len(p) + 1) : SubSeq(s, i, i + Len(p) - 1) = p

\* s.find(sep) + 1, or 0 when sep does not occur
Find(s, sep) ==
    IF Contains(s, sep)
    THEN CHOOSE i \in 1..(Len(s) - Len(sep) + 1) :
            /\ SubSeq(s, i, i + Len(sep) - 1) = sep
            /\ \A j \in 1..(i - 1) : SubSeq(s, j, j + Len(sep) - 1) # sep
    ELSE 0

\* s.split(sep) for a non-empty sep: "".split(sep) is [""]
RECURSIVE Split(_, _)
Split(s, sep) ==
    LET i == Find(s, sep)
    IN  IF i = 0 THEN <<s>>
        ELSE <<SubSeq(s, 1, i - 1)>> \o Split(SubSeq(s, i + Len(sep), Len(s)), sep)

(***************************************************************************)
(* GetJobsSpider                                                           *)
(***************************************************************************)
PageSize == 100

DefaultClickTimeout == 3000

IntInput(n) == [kind |-> "int", val |-> n, text |-> <<>>]

StrInput(t) == [kind |-> "str", val |-> 0, text |-> t]

\* texts given on the command line (-a n_listings=...)
TextInputs == {Str(0), Str(250), <<"-", "7">>, <<"a", "b", "c">>, <<"1", ".", "5">>}

Listings == {IntInput(n) : n \in (0 - MinTargetAbs)..MaxTarget} \cup {StrInput(t) : t \in TextInputs}

\* int(n_listings): succeeds on an int and on an integer literal, else ValueError
IntAccepts(x) == x.kind = "int" \/ IsIntLiteral(x.text)

IntOf(x) == IF x.kind = "int" THEN x.val ELSE IntValue(x.text)

\* math.ceil(a / b) for b > 0; a / b is exact enough in floating point for
\* every a of the model, so the ceiling is the integer ceiling
MathCeilDiv(a, b) == 0 - ((0 - a) \div b)

\* mutant: floor instead of ceil
LoadPagesFloor(jobs) == (jobs \div PageSize) - 1

\* load_pages = math.ceil((self.required_jobs / 100)) - 1
LoadPages(jobs) == MathCeilDiv(jobs, PageSize) - 1

NoJsCode == [LOAD_PAGES |-> <<>>, CLICK_TIMEOUT |-> <<>>]

\* mutant: the two replacements swapped
LoadJsCodeSwapped(jobs, click_timeout) ==
    [LOAD_PAGES |-> Str(click_timeout), CLICK_TIMEOUT |-> Str(LoadPages(jobs))]

\* load_js_code: the text put in place of LOAD_PAGES and of CLICK_TIMEOUT
LoadJsCode(jobs, click_timeout) ==
    [LOAD_PAGES |-> Str(LoadPages(jobs)), CLICK_TIMEOUT |-> Str(click_timeout)]

\* mutant: the script is evaluated before the cookie banner is accepted
PageMethodsEvaluateFirst ==
    << [method |-> "wait_for_selector", selector |-> "div.jobs-list div.job-wrapper"],
       [method |-> "wait_for_selector", selector |-> "#accept-btn"],
       [method |-> "evaluate", selector |-> ""],
       [method |-> "click", selector |-> "#accept-btn"] >>

\* playwright_page_methods of start_requests
PageMethods ==
    << [method |-> "wait_for_selector", selector |-> "div.jobs-list div.job-wrapper"],
       [method |-> "wait_for_selector", selector |-> "#accept-btn"],
       [method |-> "click", selector |-> "#accept-btn"],
       [method |-> "evaluate", selector |-> ""] >>

\* the number the script reads where LOAD_PAGES stood
ScriptLoadPages(code) == IntValue(code.LOAD_PAGES)

\* the number the script reads where CLICK_TIMEOUT stood
ScriptClickTimeout(code) == IntValue(code.CLICK_TIMEOUT)

JobInit ==
    /\ jpc = "new"
    /\ n_listings \in Listings
    /\ required_jobs = 0
    /\ js_code = NoJsCode
    /\ page_methods = <<>>
    /\ pm_idx = 0
    /\ clicks = 0
    /\ events = <<>>

JobIdle ==
    /\ jpc = "idle"
    /\ n_listings = IntInput(0)
    /\ required_jobs = 0
    /\ js_code = NoJsCode
    /\ page_methods = <<>>
    /\ pm_idx = 0
    /\ clicks = 0
    /\ events = <<>>

\* __init__ when int(n_listings) succeeds
Construct ==
    /\ jpc = "new"
    /\ IntAccepts(n_listings)
    /\ required_jobs' = IntOf(n_listings)
    /\ js_code' = LoadJsCode(IntOf(n_listings), DefaultClickTimeout)
    /\ jpc' = "constructed"
    /\ UNCHANGED <<n_listings, page_methods, pm_idx, clicks, events>>
    /\ UNCHANGED <<selVars, scrVars>>

\* __init__ when int(n_listings) raises ValueError
ConstructRaises ==
    /\ jpc = "new"
    /\ ~IntAccepts(n_listings)
    /\ jpc' = "raised"
    /\ UNCHANGED <<n_listings, required_jobs, js_code, page_methods, pm_idx, clicks, events>>
    /\ UNCHANGED <<selVars, scrVars>>

\* start_requests: the one request, carrying the page methods
StartRequests ==
    /\ jpc = "constructed"
    /\ page_methods' = PageMethods
    /\ pm_idx' = 1
    /\ jpc' = "browser"
    /\ UNCHANGED <<n_listings, required_jobs, js_code, clicks, events>>
    /\ UNCHANGED <<selVars, scrVars>>

\* the driver runs a wait_for_selector or click page method
RunPageMethod ==
    /\ jpc = "browser"
    /\ pm_idx <= Len(page_methods)
    /\ page_methods[pm_idx].method # "evaluate"
    /\ events' = Append(events, page_methods[pm_idx].method \o ":" \o page_methods[pm_idx].selector)
    /\ pm_idx' = pm_idx + 1
    /\ UNCHANGED <<jpc, n_listings, required_jobs, js_code, page_methods, clicks>>
    /\ UNCHANGED <<selVars, scrVars>>

\* the evaluated script does one "load more" interaction and waits; the script
\* file is not part of the sources, its loop is the one the specification
\* describes: LOAD_PAGES interactions (none when LOAD_PAGES <= 0)
LoadMore ==
    /\ jpc = "browser"
    /\ pm_idx <= Len(page_methods)
    /\ page_methods[pm_idx].method = "evaluate"
    /\ clicks < ScriptLoadPages(js_code)
    /\ clicks' = clicks + 1
    /\ events' = Append(events, "load_more")
    /\ UNCHANGED <<jpc, n_listings, required_jobs, js_code, page_methods, pm_idx>>
    /\ UNCHANGED <<selVars, scrVars>>

\* the evaluated script has done its LOAD_PAGES interactions
EvaluateDone ==
    /\ jpc = "browser"
    /\ pm_idx <= Len(page_methods)
    /\ page_methods[pm_idx].method = "evaluate"
    /\ clicks >= ScriptLoadPages(js_code)
    /\ pm_idx' = pm_idx + 1
    /\ UNCHANGED <<jpc, n_listings, required_jobs, js_code, page_methods, clicks, events>>
    /\ UNCHANGED <<selVars, scrVars>>

\* parse: the extraction pass over the job list of the response (the items
\* it yields are not part of the state)
Parse ==
    /\ jpc = "browser"
    /\ pm_idx > Len(page_methods)
    /\ events' = Append(events, "parse")
    /\ jpc' = "parsed"
    /\ UNCHANGED <<n_listings, required_jobs, js_code, page_methods, pm_idx, clicks>>
    /\ UNCHANGED <<selVars, scrVars>>

JobNext ==
    \/ Construct
    \/ ConstructRaises
    \/ StartRequests
    \/ RunPageMethod
    \/ LoadMore
    \/ EvaluateDone
    \/ Parse

(***************************************************************************)
(* upsplash_images.py: get_high_res_img_url                                *)
(***************************************************************************)
KwPlus == <<"p", "l", "u", "s">>

KwProfile == <<"p", "r", "o", "f", "i", "l", "e">>

KwPremium == <<"p", "r", "e", "m", "i", "u", "m">>

\* the keyword list passed by get_high_res_img_url
Keywords == <<KwPlus, KwProfile, KwPremium>>

\* pieces the srcset texts of the model are built from
Pieces == { <<"a">>, <<"b">>, KwPlus, KwProfile, KwPremium, <<"?">>, <<" ">>, <<",", " ">> }

RECURSIVE Concats(_)
Concats(k) ==
    IF k = 0 THEN {<<>>}
    ELSE LET prev == Concats(k - 1)
         IN  prev \cup {s \o p : s \in prev, p \in Pieces}

Srcsets == Concats(MaxPieces)

StrNode(s) == [attr |-> "str", srcset |-> s]

\* <img> without a srcset attribute
MissingNode == [attr |-> "missing", srcset |-> <<>>]

\* <img srcset> whose attribute has no value: attrs["srcset"] is None
NoneNode == [attr |-> "none", srcset |-> <<>>]

Nodes == {StrNode(s) : s \in Srcsets} \cup {MissingNode, NoneNode}

\* values and exceptions of get_high_res_img_url
PyNone == [tag |-> "None", s |-> <<>>]

PyStr(s) == [tag |-> "str", s |-> s]

PyRaise(e) == [tag |-> e, s |-> <<>>]

IsRaise(r) == r.tag \in {"KeyError", "AttributeError"}

\* truth value of a str | None
Truthy(r) == r.tag = "str" /\ r.s # <<>>

\* img_filter_out: not any(x in url for x in keywords)
ImgFilterOut(url, keywords) == ~(\E k \in 1..Len(keywords) : Contains(url, keywords[k]))

\* srcset.split(", ")
SrcsetList(srcset) == Split(srcset, <<",", " ">>)

\* [src.split(" ") for src in srcset_list if img_filter_out(src, [...])]
UrlRes(srcset) ==
    LET kept == SelectSeq(SrcsetList(srcset), LAMBDA src : ImgFilterOut(src, Keywords))
    IN  [i \in 1..Len(kept) |-> Split(kept[i], <<" ">>)]

\* mutant: the last remaining entry is taken, and its query string kept
GetHighResImgUrlLast(node) ==
    IF node.attr = "missing" THEN PyRaise("KeyError")
    ELSE IF node.attr = "none" THEN PyRaise("AttributeError")
    ELSE LET res == UrlRes(node.srcset)
         IN  IF res = <<>> THEN PyNone
             ELSE PyStr(res[Len(res)][1])

\* get_high_res_img_url
GetHighResImgUrl(node) ==
    IF node.attr = "missing" THEN PyRaise("KeyError")
    ELSE IF node.attr = "none" THEN PyRaise("AttributeError")
    ELSE LET res == UrlRes(node.srcset)
         IN  IF res = <<>> THEN PyNone
             ELSE PyStr(Split(res[1][1], <<"?">>)[1])

SelInit ==
    /\ spc = "call"
    /\ img_node \in Nodes
    /\ url_res = <<>>
    /\ sel_result = PyNone

SelIdle ==
    /\ spc = "idle"
    /\ img_node = MissingNode
    /\ url_res = <<>>
    /\ sel_result = PyNone

\* a call of get_high_res_img_url that returns
SelectReturns ==
    /\ spc = "call"
    /\ ~IsRaise(GetHighResImgUrl(img_node))
    /\ url_res' = UrlRes(img_node.srcset)
    /\ sel_result' = GetHighResImgUrl(img_node)
    /\ spc' = "returned"
    /\ UNCHANGED img_node
    /\ UNCHANGED <<jobVars, scrVars>>

\* a call of get_high_res_img_url that raises at line 65 or 66
SelectRaises ==
    /\ spc = "call"
    /\ IsRaise(GetHighResImgUrl(img_node))
    /\ sel_result' = GetHighResImgUrl(img_node)
    /\ spc' = "raised"
    /\ UNCHANGED <<img_node, url_res>>
    /\ UNCHANGED <<jobVars, scrVars>>

SelNext == SelectReturns \/ SelectRaises

(***************************************************************************)
(* upsplash_images.py: scrape_up_splash, save_images                       *)
(***************************************************************************)
\* the search terms of the run under __main__
MainTerms == <<"lions", "tigers", "wolves", "foxes", "bears", "rabbits", "horses", "elephants", "giraffes", "zebras">>

RECURSIVE SeqsUpTo(_, _)
SeqsUpTo(S, k) ==
    IF k = 0 THEN {<<>>}
    ELSE LET prev == SeqsUpTo(S, k - 1)
         IN  prev \cup {Append(q, x) : q \in prev, x \in S}

TermsNone == [isNone |-> TRUE, list |-> <<>>]

\* the arguments tried: None, the empty list, and the first terms of the main run
TermsArgs == {TermsNone} \cup {[isNone |-> FALSE, list |-> SubSeq(MainTerms, 1, k)] : k \in 0..MaxTerms}

\* img nodes a result page can hold
PageNodes ==
    { StrNode(<<>>),
      StrNode(KwPlus),
      StrNode(KwPlus \o <<",", " ", "a", "?", "b">>),
      StrNode(<<"b", "/", "a", " ", "b">>),
      MissingNode }

NodeLists == SeqsUpTo(PageNodes, MaxImgs)

\* mutant: only None is filtered out
ImgUrlsNotNone(all) == SelectSeq(all, LAMBDA u : u.tag = "str")

\* [u for u in all_img_urls if u]
ImgUrls(all) == SelectSeq(all, Truthy)

\* file_name = url.split("/")[-1]
FileName(url) == LET parts == Split(url, <<"/">>) IN parts[Len(parts)]

ScrInit ==
    /\ pc = "start"
    /\ terms \in TermsArgs
    /\ term_idx = 0
    /\ img_nodes = <<>>
    /\ all_img_urls = <<>>
    /\ img_urls = <<>>
    /\ url_idx = 0
    /\ fetchLog = <<>>
    /\ writeLog = <<>>

ScrIdle ==
    /\ pc = "idle"
    /\ terms = TermsNone
    /\ term_idx = 0
    /\ img_nodes = <<>>
    /\ all_img_urls = <<>>
    /\ img_urls = <<>>
    /\ url_idx = 0
    /\ fetchLog = <<>>
    /\ writeLog = <<>>

\* mutant: the check of the argument is dropped for an empty list
NoTermsLenient(t) == t.isNone

\* not terms or len(terms) == 0
NoTerms(t) == t.isNone \/ Len(t.list) = 0

\* scrape_up_splash raises "No search term provided"
ScrapeRaises ==
    /\ pc = "start"
    /\ NoTerms(terms)
    /\ pc' = "raised"
    /\ UNCHANGED <<terms, term_idx, img_nodes, all_img_urls, img_urls, url_idx, fetchLog, writeLog>>
    /\ UNCHANGED <<jobVars, selVars>>

\* scrape_up_splash enters its loop over the terms
ScrapeBegin ==
    /\ pc = "start"
    /\ ~NoTerms(terms)
    /\ term_idx' = 1
    /\ pc' = "loop"
    /\ UNCHANGED <<terms, img_nodes, all_img_urls, img_urls, url_idx, fetchLog, writeLog>>
    /\ UNCHANGED <<jobVars, selVars>>

\* lines 24-26 and the call of save_images: the page fetch and the selection
FetchTerm ==
    /\ pc = "loop"
    /\ term_idx <= Len(terms.list)
    /\ \E nodes \in NodeLists :
        LET all == [i \in 1..Len(nodes) |-> GetHighResImgUrl(nodes[i])]
        IN  /\ \A i \in 1..Len(all) : ~IsRaise(all[i])
            /\ img_nodes' = nodes
            /\ all_img_urls' = all
            /\ img_urls' = ImgUrls(all)
    /\ url_idx' = 1
    /\ pc' = "save"
    /\ UNCHANGED <<terms, term_idx, fetchLog, writeLog>>
    /\ UNCHANGED <<jobVars, selVars>>

\* lines 24-25 when get_high_res_img_url raises on a node
FetchTermRaises ==
    /\ pc = "loop"
    /\ term_idx <= Len(terms.list)
    /\ \E nodes \in NodeLists :
        LET all == [i \in 1..Len(nodes) |-> GetHighResImgUrl(nodes[i])]
        IN  /\ \E i \in 1..Len(all) : IsRaise(all[i])
            /\ img_nodes' = nodes
            /\ all_img_urls' = all
    /\ pc' = "raised"
    /\ UNCHANGED <<terms, term_idx, img_urls, url_idx, fetchLog, writeLog>>
    /\ UNCHANGED <<jobVars, selVars>>

\* one iteration of the loop of save_images: get(url), then the file write
SaveImage ==
    /\ pc = "save"
    /\ url_idx <= Len(img_urls)
    /\ fetchLog' = Append(fetchLog, [ti |-> term_idx, url |-> img_urls[url_idx].s])
    /\ writeLog' = Append(writeLog,
            [ti |-> term_idx, dir |-> terms.list[term_idx], tag |-> terms.list[term_idx],
             file_name |-> FileName(img_urls[url_idx].s)])
    /\ url_idx' = url_idx + 1
    /\ UNCHANGED <<pc, terms, term_idx, img_nodes, all_img_urls, img_urls>>
    /\ UNCHANGED <<jobVars, selVars>>

\* save_images returns; the loop over the terms goes on
SaveDone ==
    /\ pc = "save"
    /\ url_idx > Len(img_urls)
    /\ term_idx' = term_idx + 1
    /\ pc' = "loop"
    /\ UNCHANGED <<terms, img_nodes, all_img_urls, img_urls, url_idx, fetchLog, writeLog>>
    /\ UNCHANGED <<jobVars, selVars>>

\* the loop over the terms is over: scrape_up_splash returns
ScrapeDone ==
    /\ pc = "loop"
    /\ term_idx > Len(terms.list)
    /\ pc' = "done"
    /\ UNCHANGED <<terms, term_idx, img_nodes, all_img_urls, img_urls, url_idx, fetchLog, writeLog>>
    /\ UNCHANGED <<jobVars, selVars>>

ScrNext ==
    \/ ScrapeRaises
    \/ ScrapeBegin
    \/ FetchTerm
    \/ FetchTermRaises
    \/ SaveImage
    \/ SaveDone
    \/ ScrapeDone

(***************************************************************************)
(* Specifications: one per program.                                        *)
(***************************************************************************)
JobsInit == JobInit /\ SelIdle /\ ScrIdle

SpecJobs == JobsInit /\ [][JobNext]_vars

SelectInit == JobIdle /\ SelInit /\ ScrIdle

SpecSelect == SelectInit /\ [][SelNext]_vars

ScrapeInit == JobIdle /\ SelIdle /\ ScrInit

SpecScrape == ScrapeInit /\ [][ScrNext]_vars

(***************************************************************************)
(* Properties of GetJobsSpider (SpecJobs).                                 *)
(***************************************************************************)
Constructed == jpc \in {"constructed", "browser", "parsed"}

\* the n_listings argument denotes an integer below 1
BelowOne == IntAccepts(n_listings) /\ IntOf(n_listings) < 1

\* C1: for every target_count >= 1 the LOAD_PAGES value substituted into the
\* script is ceil(target_count / 100) - 1, the only L with
\* 100 * L < target_count <= 100 * (L + 1): 0 on 1..100, 1 on 101..200,
\* 2 for 250 and 300, 3 for 301.
C1_LoadPagesIsCeilMinusOne ==
    (Constructed /\ required_jobs >= 1) =>
        LET L == ScriptLoadPages(js_code)
        IN  /\ 100 * L < required_jobs
            /\ required_jobs <= 100 * (L + 1)
            /\ (required_jobs \in 1..100 => L = 0)
            /\ (required_jobs \in 101..200 => L = 1)
            /\ (required_jobs \in {250, 300} => L = 2)
            /\ (required_jobs = 301 => L = 3)

C1_Witness ==
    /\ jpc = "constructed"
    /\ n_listings = IntInput(301)
    /\ js_code.LOAD_PAGES = <<"3">>

\* C2: a target_count below 1 is rejected: the spider is never constructed
\* with it, so no request carrying the script is issued.
C2_BelowOneIsRejected == BelowOne => jpc \in {"new", "raised"}

\* C3: the LOAD_PAGES value handed to the script is never negative, whatever
\* integer the spider was constructed with.
C3_LoadPagesNonNegative == Constructed => ScriptLoadPages(js_code) >= 0

LoadMoreAt == {i \in 1..Len(events) : events[i] = "load_more"}

AcceptAt == {i \in 1..Len(events) : events[i] = "click:#accept-btn"}

ParseAt == {i \in 1..Len(events) : events[i] = "parse"}

\* C7: with a valid target_count, every "load more" interaction comes after
\* the click on the cookie button and before parse, and when parse begins
\* exactly ceil(target_count / 100) - 1 of them have been done.
C7_LoadMoreBetweenAcceptAndParse ==
    (Constructed /\ required_jobs >= 1) =>
        /\ \A i \in LoadMoreAt :
            /\ \E a \in AcceptAt : a < i
            /\ \A p \in ParseAt : i < p
        /\ jpc = "parsed" =>
            /\ ParseAt = {Len(events)}
            /\ 100 * Cardinality(LoadMoreAt) < required_jobs
            /\ required_jobs <= 100 * (Cardinality(LoadMoreAt) + 1)

C7_Witness ==
    /\ jpc = "parsed"
    /\ required_jobs = 250
    /\ Cardinality(LoadMoreAt) = 2
    /\ AcceptAt = {3}

\* C8: for every valid target_count the CLICK_TIMEOUT value substituted into
\* the script is 3000.
C8_ClickTimeoutIs3000 ==
    (Constructed /\ required_jobs >= 1) =>
        /\ js_code.CLICK_TIMEOUT = <<"3", "0", "0", "0">>
        /\ ScriptClickTimeout(js_code) = 3000

C8_Witness ==
    /\ jpc = "browser"
    /\ required_jobs = 150
    /\ ScriptClickTimeout(js_code) = 3000

(***************************************************************************)
(* Properties of get_high_res_img_url (SpecSelect).                        *)
(***************************************************************************)
\* the URL of a srcset entry: what stands before its first space
EntryUrl(entry) == Split(entry, <<" ">>)[1]

\* the URL contains one of 'plus', 'profile', 'premium'
UrlExcluded(url) == Contains(url, KwPlus) \/ Contains(url, KwProfile) \/ Contains(url, KwPremium)

\* C4: when the attribute is empty, or every candidate's URL is excluded, the
\* call returns None and does not raise.
C4_NoneWhenNothingSurvives ==
    (spc \in {"returned", "raised"} /\ img_node.attr = "str") =>
        LET list == SrcsetList(img_node.srcset)
        IN  (img_node.srcset = <<>> \/ \A i \in 1..Len(list) : UrlExcluded(EntryUrl(list[i])))
                => (spc = "returned" /\ sel_result = PyNone)

\* p is a prefix of s
StartsWith(s, p) == Len(p) <= Len(s) /\ SubSeq(s, 1, Len(p)) = p

C6_ExcludedIffUrlHasKeyword ==
    spc = "returned" =>
        LET list == SrcsetList(img_node.srcset)
            kept == SelectSeq(list, LAMBDA e : ~UrlExcluded(EntryUrl(e)))
        IN  url_res = [i \in 1..Len(kept) |-> Split(kept[i], <<" ">>)]

(***************************************************************************)
(* Properties of scrape_up_splash (SpecScrape).                            *)
(***************************************************************************)
\* C9: called with None or with an empty list, scrape_up_splash raises
\* before any page fetch, download or file write.
C9_NoTermsRaisesFirst ==
    (terms.isNone \/ terms.list = <<>>) =>
        /\ pc \in {"start", "raised"}
        /\ term_idx = 0
        /\ img_nodes = <<>>
        /\ fetchLog = <<>>
        /\ writeLog = <<>>

C9_Witness ==
    /\ pc = "raised"
    /\ ~terms.isNone
    /\ terms.list = <<>>

\* the URLs among the outcomes, in order
YieldedUrls(all) ==
    LET got == SelectSeq(all, LAMBDA u : u.tag = "str" /\ u.s # <<>>)
    IN  [i \in 1..Len(got) |-> got[i].s]

\* the URLs fetched for the term at position ti, in order
FetchedFor(ti) ==
    LET got == SelectSeq(fetchLog, LAMBDA e : e.ti = ti)
    IN  [i \in 1..Len(got) |-> got[i].url]

\* C10: an image whose outcome is None causes no download and no write:
\* the downloads of a term are the URLs its images yielded, in order, each
\* with one file write, and only a missing argument or a raising selection
\* ends the run early.
C10_DownloadsAreTheYieldedUrls ==
    /\ Len(writeLog) = Len(fetchLog)
    /\ \A i \in 1..Len(fetchLog) :
        /\ writeLog[i].ti = fetchLog[i].ti
        /\ writeLog[i].file_name = FileName(fetchLog[i].url)
    /\ \A i \in 1..(Len(fetchLog) - 1) : fetchLog[i].ti <= fetchLog[i + 1].ti
    /\ pc = "save" =>
        /\ Len(FetchedFor(term_idx)) = url_idx - 1
        /\ url_idx - 1 <= Len(YieldedUrls(all_img_urls))
        /\ \A i \in 1..(url_idx - 1) : FetchedFor(term_idx)[i] = YieldedUrls(all_img_urls)[i]
    /\ (pc \in {"loop", "done"} /\ term_idx > 1) =>
        FetchedFor(term_idx - 1) = YieldedUrls(all_img_urls)
    /\ pc = "done" => term_idx = Len(terms.list) + 1
    /\ pc = "raised" =>
        \/ terms.isNone
        \/ terms.list = <<>>
        \/ \E i \in 1..Len(all_img_urls) : IsRaise(all_img_urls[i])

C10_Witness ==
    /\ pc = "done"
    /\ Len(terms.list) = 2
    /\ all_img_urls = <<PyNone, PyStr(<<"a">>)>>
    /\ FetchedFor(1) = <<<<"b", "/", "a">>, <<"a">>>>
    /\ FetchedFor(2) = <<<<"a">>>>

====
